---- MODULE Spec2Model ----
(***************************************************************************)
(* A model of pkg/healthcheck (HealthChecker, its Add* registration calls  *)
(* and RunChecks) and of the parts of pkg/k8s the checks call.             *)
(*                                                                         *)
(* Strings that the code only passes on (categories, descriptions) are     *)
(* TLA+ strings.  A string that the code formats (the failure message of a *)
(* sub-result) is a sequence of one-character strings, so that fmt's       *)
(* treatment of '%' can be computed.                                       *)
(***************************************************************************)
EXTENDS Integers, Sequences, FiniteSets, TLC

(***************************************************************************)
(* Bounds of the model.                                                    *)
(***************************************************************************)
\* calls of each Add* registration method before RunChecks
MaxCalls == 1
\* checkers appended one by one before RunChecks
MaxCheckers == 2
\* sub-results in one SelfCheckResponse
MaxResults == 2

(***************************************************************************)
(* Values.                                                                 *)
(***************************************************************************)
\* the nil func value of checker.check / checker.checkRpc
NilFn == [fn |-> "nil", arg |-> ""]

\* the nil error
NilErr == [isNil |-> TRUE, text |-> <<>>]

\* a non-nil error with the given text
NewError(text) == [isNil |-> FALSE, text |-> text]

\* the error an action or an RPC returns when it fails
ActErr == NewError(<<"e", "r", "r">>)

\* the error a remote call returns when the deadline of its context passes:
\* ctx, cancel := context.WithTimeout(context.Background(), 5*time.Second)
DeadlineExceeded == NewError(<<"d", "e", "a", "d", "l", "i", "n", "e">>)

\* the fields of HealthChecker that the checks' closures share
Fields == {"kubeApi", "httpClient", "kubeVersion", "apiClient", "latestVersion"}

\* the zero value of a field; by is the index of the check that assigned it
ZeroField == [st |-> "nil", by |-> 0]

\* the failure messages a self-check may carry: here one, "d%d", of plain
\* characters and a '%'
Messages == { <<"d", "%", "d">> }

\* healthcheckPb.CheckResult
SubResults ==
    { [SubsystemName |-> "s", CheckDescription |-> "sd", Status |-> "OK",
       FriendlyMessageToUser |-> <<>>] }
    \cup
    { [SubsystemName |-> "s", CheckDescription |-> "sd", Status |-> "ERROR",
       FriendlyMessageToUser |-> m] : m \in Messages }

\* the sequences of at most n elements of S
RECURSIVE SeqsUpTo(_, _)
SeqsUpTo(S, n) ==
    IF n = 0 THEN { <<>> }
    ELSE LET shorter == SeqsUpTo(S, n - 1)
         IN  shorter \cup { Append(s, e) : s \in { t \in shorter : Len(t) = n - 1 }, e \in S }

\* SelfCheckResponse.Results
Responses == SeqsUpTo(SubResults, MaxResults)

(***************************************************************************)
(* pkg/k8s: CheckVersion.  A version string is a sequence of one-character *)
(* strings; a version is a triple of numbers, as in [3]int.                *)
(***************************************************************************)
\* the largest major, minor and patch number in the version strings tried
MaxComponent == 10

\* the decimal digits, Digits[d + 1] being the digit of value d
Digits == <<"0", "1", "2", "3", "4", "5", "6", "7", "8", "9">>

IsDigit(c) == \E d \in 1..Len(Digits) : Digits[d] = c

DigitValue(c) == (CHOOSE d \in 1..Len(Digits) : Digits[d] = c) - 1

\* what the verb %d prints for n >= 0
RECURSIVE Itoa(_)
Itoa(n) ==
    IF n < Len(Digits)
    THEN << Digits[n + 1] >>
    ELSE Append(Itoa(n \div Len(Digits)), Digits[(n % Len(Digits)) + 1])

\* var minApiVersion = [3]int{1, 8, 0}
minApiVersion == <<1, 8, 0>>

\* version.Info, of which CheckVersion uses String(), that is, GitVersion
VersionInfo(gitVersion) == [GitVersion |-> gitVersion]

String(info) == info.GitVersion

\* s without its leading non-numeric tag
RECURSIVE SkipTag(_)
SkipTag(s) ==
    IF s = <<>> \/ IsDigit(Head(s)) THEN s ELSE SkipTag(Tail(s))

\* the number that the longest run of digits at the start of s denotes, after
\* the digits that gave acc: n is the number, digits how many digits were
\* read for acc and n, rest what follows them
RECURSIVE ReadNumber(_, _, _)
ReadNumber(s, acc, digits) ==
    IF s = <<>> \/ ~IsDigit(Head(s))
    THEN [n |-> acc, digits |-> digits, rest |-> s]
    ELSE ReadNumber(Tail(s), acc * Len(Digits) + DigitValue(Head(s)), digits + 1)

\* the error of getK8sVersion, which names the string it could not parse
ParseError(versionString) == NewError(<<"parse: ">> \o versionString)

\* getK8sVersion(versionString): the first three dot-separated numeric
\* components after the leading tag, whatever follows the third; an error
\* when there are fewer than three
getK8sVersion(versionString) ==
    LET major == ReadNumber(SkipTag(versionString), 0, 0)
        dot1  == major.rest # <<>> /\ Head(major.rest) = "."
        minor == IF dot1 THEN ReadNumber(Tail(major.rest), 0, 0) ELSE major
        dot2  == minor.rest # <<>> /\ Head(minor.rest) = "."
        patch == IF dot2 THEN ReadNumber(Tail(minor.rest), 0, 0) ELSE minor
    IN  IF /\ major.digits > 0
           /\ dot1 /\ minor.digits > 0
           /\ dot2 /\ patch.digits > 0
        THEN [version |-> <<major.n, minor.n, patch.n>>, err |-> NilErr]
        ELSE [version |-> <<0, 0, 0>>, err |-> ParseError(versionString)]

\* isCompatibleVersion(minimalRequirementVersion, actualVersion)
isCompatibleVersion(minimalRequirementVersion, actualVersion) ==
    \/ actualVersion[1] > minimalRequirementVersion[1]
    \/ /\ actualVersion[1] = minimalRequirementVersion[1]
       /\ actualVersion[2] > minimalRequirementVersion[2]
    \/ /\ actualVersion[1] = minimalRequirementVersion[1]
       /\ actualVersion[2] = minimalRequirementVersion[2]
       /\ actualVersion[3] >= minimalRequirementVersion[3]

\* what "[%d.%d.%d]" prints for the three numbers of v
BracketedVersion(v) ==
    <<"[">> \o Itoa(v[1]) \o <<".">> \o Itoa(v[2]) \o <<".">> \o Itoa(v[3]) \o <<"]">>

\* fmt.Errorf("Kubernetes is on version [%d.%d.%d], but version [%d.%d.%d]
\* or more recent is required", apiVersion[0], ..., minApiVersion[2])
IncompatibleVersionError(apiVersion, minVersion) ==
    NewError(<<"Kubernetes is on version ">> \o BracketedVersion(apiVersion)
             \o <<", but version ">> \o BracketedVersion(minVersion)
             \o <<" or more recent is required">>)

\* CheckVersion with the arguments of isCompatibleVersion exchanged
CheckVersionExchanged(versionInfo) ==
    LET parsed == getK8sVersion(String(versionInfo))
        apiVersion == parsed.version
    IN  IF ~parsed.err.isNil
        THEN parsed.err
        ELSE IF ~isCompatibleVersion(apiVersion, minApiVersion)
        THEN IncompatibleVersionError(apiVersion, minApiVersion)
        ELSE NilErr

\* CheckVersion going on to the comparison after a parse error
CheckVersionUnparsed(versionInfo) ==
    LET parsed == getK8sVersion(String(versionInfo))
        apiVersion == parsed.version
    IN  IF ~isCompatibleVersion(minApiVersion, apiVersion)
        THEN IncompatibleVersionError(apiVersion, minApiVersion)
        ELSE NilErr

\* func (kubeapi *kubernetesApi) CheckVersion(versionInfo *version.Info) error
CheckVersion(versionInfo) ==
    LET parsed == getK8sVersion(String(versionInfo))
        apiVersion == parsed.version
    IN  IF ~parsed.err.isNil
        THEN parsed.err
        ELSE IF ~isCompatibleVersion(minApiVersion, apiVersion)
        THEN IncompatibleVersionError(apiVersion, minApiVersion)
        ELSE NilErr

\* the tags and the suffixes of the version strings tried
Tags == { <<>>, <<"v">> }

Suffixes == { <<>>, <<"-", "g", "k", "e", ".", "2">>, <<"+">> }

\* version strings with three numeric components
WellFormedVersions ==
    { t \o Itoa(a) \o <<".">> \o Itoa(b) \o <<".">> \o Itoa(c) \o s :
        t \in Tags, a \in 0..MaxComponent, b \in 0..MaxComponent,
        c \in 0..MaxComponent, s \in Suffixes }

\* version strings with fewer than three numeric components
MalformedVersions ==
    { <<>>, <<"a", "b", "c">>, <<"v">>, <<"1">>, <<"1", ".", "8">>,
      <<"v", "1", ".", "8">>, <<"1", ".", "8", ".">>, <<"1", ".", ".", "8">>,
      <<"1", ".", "x", ".", "0">>, <<"v", "1", ".", "8", ".", "x">>,
      <<"1", "-", "8", "-", "0">> }

\* the arguments CheckVersion is called with
VersionInfos == { VersionInfo(g) : g \in WellFormedVersions \cup MalformedVersions }

\* the version.Info of a cluster that was not asked for its version
NoVersionInfo == VersionInfo(<<>>)

VARIABLES
    checkers,   \* hc.checkers
    hc,         \* hc.kubeApi, hc.httpClient, hc.kubeVersion, hc.apiClient, hc.latestVersion
    nRegs,      \* registrations made so far, by kind (not a field of the program)
    pc,         \* position of RunChecks
    i,          \* index in hc.checkers of the checker of the current iteration
    success,    \* RunChecks' local success
    err,        \* RunChecks' local err
    rsp,        \* checkRsp.Results
    k,          \* sub-results of checkRsp observed so far
    result,     \* the value RunChecks returned
    calls,      \* history: the actions invoked, in order
    rets,       \* history: the actions that returned, with what they returned
    obs,        \* history: the calls of the observer, in order
    reads,      \* history: the reads of the shared fields, in order
    versionInfo,    \* the argument of a call of CheckVersion
    versionRet,     \* what that call returned, once it has returned
    first       \* history: what the first of two calls of RunChecks did

vars == <<checkers, hc, nRegs, pc, i, success, err, rsp, k, result, calls, rets, obs, reads,
          versionInfo, versionRet, first>>

runVars == <<pc, i, success, err, rsp, k, result, calls, rets, obs, reads>>

versionVars == <<versionInfo, versionRet>>


(***************************************************************************)
(* The shared fields: reading and assigning them.                          *)
(***************************************************************************)
\* the record of check idx reading field f of h
Read(h, f, idx) == [idx |-> idx, field |-> f, st |-> h[f].st, by |-> h[f].by]

\* h after check idx assigned field f: st is "ok" when the call that produced
\* the value returned no error and "failed" when it returned one
Write(h, f, st, idx) == [h EXCEPT ![f] = [st |-> st, by |-> idx]]

\* what one execution of a local action does: the error it returns, the
\* fields after it, the reads it made, and whether it panicked instead of
\* returning (a method call on a nil interface or a nil pointer)
Outcome(e, h, rd, p) == [err |-> e, hc |-> h, reads |-> rd, panic |-> p]

(***************************************************************************)
(* The closures registered by AddKubernetesAPIChecks.                      *)
(***************************************************************************)
\* hc.kubeApi, err = k8s.NewAPI(kubeconfigPath)
CheckCanInitKubeClient(h, idx, arg) ==
    { Outcome(NilErr, Write(h, "kubeApi", "ok", idx), <<>>, FALSE),
      Outcome(ActErr, Write(h, "kubeApi", "failed", idx), <<>>, FALSE) }

\* hc.httpClient, err = hc.kubeApi.NewClient(); on success
\* hc.kubeVersion, err = hc.kubeApi.GetVersionInfo(hc.httpClient)
CheckCanQueryKubeApi(h, idx, arg) ==
    LET r1 == <<Read(h, "kubeApi", idx)>>
        h1 == Write(h, "httpClient", "ok", idx)
        r2 == r1 \o <<Read(h1, "kubeApi", idx), Read(h1, "httpClient", idx)>>
    IN  IF h["kubeApi"].st # "ok"
        THEN { Outcome(NilErr, h, r1, TRUE) }
        ELSE { Outcome(ActErr, Write(h, "httpClient", "failed", idx), r1, FALSE),
               Outcome(ActErr, Write(h1, "kubeVersion", "failed", idx), r2, FALSE),
               Outcome(NilErr, Write(h1, "kubeVersion", "ok", idx), r2, FALSE) }

\* return hc.kubeApi.CheckVersion(hc.kubeVersion)
CheckMinKubeVersion(h, idx, arg) ==
    LET rd == <<Read(h, "kubeApi", idx), Read(h, "kubeVersion", idx)>>
    IN  IF h["kubeApi"].st # "ok" \/ h["kubeVersion"].st = "nil"
        THEN { Outcome(NilErr, h, rd, TRUE) }
        ELSE IF h["kubeVersion"].st = "failed"
        THEN { Outcome(NilErr, h, rd, TRUE), Outcome(ActErr, h, rd, FALSE) }
        ELSE { Outcome(NilErr, h, rd, FALSE), Outcome(ActErr, h, rd, FALSE) }

\* return hc.kubeApi.CheckNamespaceExists(hc.httpClient, controlPlaneNamespace)
CheckNamespaceExists(h, idx, arg) ==
    LET rd == <<Read(h, "kubeApi", idx), Read(h, "httpClient", idx)>>
    IN  IF h["kubeApi"].st # "ok"
        THEN { Outcome(NilErr, h, rd, TRUE) }
        ELSE IF h["httpClient"].st # "ok"
        THEN { Outcome(NilErr, h, rd, TRUE), Outcome(ActErr, h, rd, FALSE) }
        ELSE { Outcome(NilErr, h, rd, FALSE), Outcome(ActErr, h, rd, FALSE) }

(***************************************************************************)
(* The closures registered by AddLinkerdAPIChecks.                         *)
(***************************************************************************)
\* CheckCanInitApiClient building the external client whatever apiAddr is
CheckCanInitApiClientExternal(h, idx, arg) ==
    LET rd == <<Read(h, "kubeApi", idx)>>
        returns == { Outcome(NilErr, Write(h, "apiClient", "ok", idx), rd, FALSE),
                     Outcome(ActErr, Write(h, "apiClient", "failed", idx), rd, FALSE) }
    IN  IF h["kubeApi"].st # "ok"
        THEN returns \cup { Outcome(NilErr, h, rd, TRUE) }
        ELSE returns

\* hc.apiClient, err = public.NewInternalClient(...) when apiAddr != "",
\* public.NewExternalClient(controlPlaneNamespace, hc.kubeApi) otherwise
CheckCanInitApiClient(h, idx, arg) ==
    LET rd == IF arg # "" THEN <<>> ELSE <<Read(h, "kubeApi", idx)>>
        returns == { Outcome(NilErr, Write(h, "apiClient", "ok", idx), rd, FALSE),
                     Outcome(ActErr, Write(h, "apiClient", "failed", idx), rd, FALSE) }
    IN  IF arg = "" /\ h["kubeApi"].st # "ok"
        THEN returns \cup { Outcome(NilErr, h, rd, TRUE) }
        ELSE returns

\* return hc.apiClient.SelfCheck(ctx, &healthcheckPb.SelfCheckRequest{}):
\* the outcomes carry the response in rsp
RpcSelfCheck(h, idx, arg) ==
    LET rd == <<Read(h, "apiClient", idx)>>
    IN  IF h["apiClient"].st # "ok"
        THEN { [err |-> NilErr, rsp |-> <<>>, reads |-> rd, panic |-> TRUE] }
        ELSE { [err |-> ActErr, rsp |-> <<>>, reads |-> rd, panic |-> FALSE],
               [err |-> DeadlineExceeded, rsp |-> <<>>, reads |-> rd, panic |-> FALSE] }
             \cup
             { [err |-> NilErr, rsp |-> r, reads |-> rd, panic |-> FALSE] : r \in Responses }

(***************************************************************************)
(* The closures registered by AddLinkerdVersionChecks.                     *)
(***************************************************************************)
\* hc.latestVersion = versionOverride when versionOverride != "",
\* hc.latestVersion, err = version.GetLatestVersion() otherwise
CheckCanGetLatestVersion(h, idx, arg) ==
    IF arg # ""
    THEN { Outcome(NilErr, Write(h, "latestVersion", "ok", idx), <<>>, FALSE) }
    ELSE { Outcome(NilErr, Write(h, "latestVersion", "ok", idx), <<>>, FALSE),
           Outcome(ActErr, Write(h, "latestVersion", "failed", idx), <<>>, FALSE) }

\* return version.CheckClientVersion(hc.latestVersion)
CheckCliUpToDate(h, idx, arg) ==
    LET rd == <<Read(h, "latestVersion", idx)>>
    IN  { Outcome(NilErr, h, rd, FALSE), Outcome(ActErr, h, rd, FALSE) }

\* return version.CheckServerVersion(hc.apiClient, hc.latestVersion)
CheckControlPlaneUpToDate(h, idx, arg) ==
    LET rd == <<Read(h, "apiClient", idx), Read(h, "latestVersion", idx)>>
        returns == { Outcome(NilErr, h, rd, FALSE), Outcome(ActErr, h, rd, FALSE) }
    IN  IF h["apiClient"].st # "ok"
        THEN returns \cup { Outcome(NilErr, h, rd, TRUE) }
        ELSE returns

(***************************************************************************)
(* A checker appended on its own, with an action that shares no field.     *)
(***************************************************************************)
PlainCheck(h, idx, arg) ==
    { Outcome(NilErr, h, <<>>, FALSE), Outcome(ActErr, h, <<>>, FALSE) }

PlainRpc(h, idx, arg) ==
    { [err |-> ActErr, rsp |-> <<>>, reads |-> <<>>, panic |-> FALSE],
      [err |-> DeadlineExceeded, rsp |-> <<>>, reads |-> <<>>, panic |-> FALSE] }
    \cup
    { [err |-> NilErr, rsp |-> r, reads |-> <<>>, panic |-> FALSE] : r \in Responses }

\* checker.check()
CallLocal(f, h, idx) ==
    CASE f.fn = "CheckCanInitKubeClient"    -> CheckCanInitKubeClient(h, idx, f.arg)
      [] f.fn = "CheckCanQueryKubeApi"      -> CheckCanQueryKubeApi(h, idx, f.arg)
      [] f.fn = "CheckMinKubeVersion"       -> CheckMinKubeVersion(h, idx, f.arg)
      [] f.fn = "CheckNamespaceExists"      -> CheckNamespaceExists(h, idx, f.arg)
      [] f.fn = "CheckCanInitApiClient"     -> CheckCanInitApiClient(h, idx, f.arg)
      [] f.fn = "CheckCanGetLatestVersion"  -> CheckCanGetLatestVersion(h, idx, f.arg)
      [] f.fn = "CheckCliUpToDate"          -> CheckCliUpToDate(h, idx, f.arg)
      [] f.fn = "CheckControlPlaneUpToDate" -> CheckControlPlaneUpToDate(h, idx, f.arg)
      [] f.fn = "PlainCheck"                -> PlainCheck(h, idx, f.arg)

\* checker.checkRpc()
CallRemote(f, h, idx) ==
    CASE f.fn = "RpcSelfCheck" -> RpcSelfCheck(h, idx, f.arg)
      [] f.fn = "PlainRpc"     -> PlainRpc(h, idx, f.arg)

(***************************************************************************)
(* fmt, as RunChecks uses it.                                              *)
(***************************************************************************)
\* fmt.Sprintf("%s[%s]", category, subsystemName)
SubCategory(category, subsystemName) == category \o "[" \o subsystemName \o "]"

\* what fmt writes for a '%' that ends the format, and for a verb c that has
\* no operand
NoVerb == <<"%", "!", "(", "N", "O", "V", "E", "R", "B", ")">>

MissingArg(c) == <<"%", "!", c, "(", "M", "I", "S", "S", "I", "N", "G", ")">>

\* fmt.Sprintf(format) with no operands, from position j of the format on
\* (for formats of letters and '%': no flags, widths or argument indexes)
RECURSIVE SprintfFrom(_, _)
SprintfFrom(format, j) ==
    IF j > Len(format) THEN <<>>
    ELSE IF format[j] # "%" THEN <<format[j]>> \o SprintfFrom(format, j + 1)
    ELSE IF j = Len(format) THEN NoVerb
    ELSE IF format[j + 1] = "%" THEN <<"%">> \o SprintfFrom(format, j + 2)
    ELSE MissingArg(format[j + 1]) \o SprintfFrom(format, j + 2)

\* fmt.Errorf(check.FriendlyMessageToUser): the message is the format
Errorf(format) == NewError(SprintfFrom(format, 1))

(***************************************************************************)
(* NewHealthChecker and the registration calls.                            *)
(***************************************************************************)
Checker(category, description, fatal, check, checkRpc) ==
    [category |-> category, description |-> description, fatal |-> fatal,
     check |-> check, checkRpc |-> checkRpc]

Fn(name, arg) == [fn |-> name, arg |-> arg]

\* KubernetesAPIChecks with a first checker that is not fatal
KubernetesAPIChecksNotFatal ==
    << Checker("kubernetes-api", "can initialize the client", FALSE,
               Fn("CheckCanInitKubeClient", ""), NilFn),
       Checker("kubernetes-api", "can query the Kubernetes API", TRUE,
               Fn("CheckCanQueryKubeApi", ""), NilFn),
       Checker("kubernetes-api", "is running the minimum Kubernetes API version", FALSE,
               Fn("CheckMinKubeVersion", ""), NilFn),
       Checker("kubernetes-api", "control plane namespace exists", TRUE,
               Fn("CheckNamespaceExists", ""), NilFn) >>

KubernetesAPIChecks ==
    << Checker("kubernetes-api", "can initialize the client", TRUE,
               Fn("CheckCanInitKubeClient", ""), NilFn),
       Checker("kubernetes-api", "can query the Kubernetes API", TRUE,
               Fn("CheckCanQueryKubeApi", ""), NilFn),
       Checker("kubernetes-api", "is running the minimum Kubernetes API version", FALSE,
               Fn("CheckMinKubeVersion", ""), NilFn),
       Checker("kubernetes-api", "control plane namespace exists", TRUE,
               Fn("CheckNamespaceExists", ""), NilFn) >>

\* LinkerdAPIChecks whose second checker has both kinds of action
LinkerdAPIChecksBothKinds(apiAddr) ==
    << Checker("linkerd-api", "can initialize the client", TRUE,
               Fn("CheckCanInitApiClient", apiAddr), NilFn),
       Checker("linkerd-api", "can query the control plane API", TRUE,
               Fn("CheckCanInitApiClient", apiAddr), Fn("RpcSelfCheck", "")) >>

LinkerdAPIChecks(apiAddr) ==
    << Checker("linkerd-api", "can initialize the client", TRUE,
               Fn("CheckCanInitApiClient", apiAddr), NilFn),
       Checker("linkerd-api", "can query the control plane API", TRUE,
               NilFn, Fn("RpcSelfCheck", "")) >>

LinkerdVersionChecks(versionOverride) ==
    << Checker("linkerd-version", "can get the latest version", TRUE,
               Fn("CheckCanGetLatestVersion", versionOverride), NilFn),
       Checker("linkerd-version", "cli is up-to-date", FALSE,
               Fn("CheckCliUpToDate", ""), NilFn),
       Checker("linkerd-version", "control plane is up-to-date", FALSE,
               Fn("CheckControlPlaneUpToDate", ""), NilFn) >>

\* the kinds of registration
Registrations ==
    {"AddKubernetesAPIChecks", "AddLinkerdAPIChecks", "AddLinkerdVersionChecks", "AppendChecker"}

\* hc := &HealthChecker{checkers: []*checker{}}, RunChecks not called yet
NewHealthChecker ==
    /\ checkers = <<>>
    /\ hc = [f \in Fields |-> ZeroField]
    /\ nRegs = [r \in Registrations |-> 0]
    /\ pc = "idle"
    /\ i = 0
    /\ success = TRUE
    /\ err = NilErr
    /\ rsp = <<>>
    /\ k = 0
    /\ result = <<>>
    /\ calls = <<>>
    /\ rets = <<>>
    /\ obs = <<>>
    /\ reads = <<>>
    /\ first = <<>>

Init ==
    /\ NewHealthChecker
    /\ versionInfo = NoVersionInfo
    /\ versionRet = <<>>

\* Register putting the new checkers before the ones registered so far
RegisterInFront(cs, kind, max) ==
    /\ pc = "idle"
    /\ nRegs[kind] < max
    /\ checkers' = cs \o checkers
    /\ nRegs' = [nRegs EXCEPT ![kind] = @ + 1]
    /\ UNCHANGED <<hc, runVars, versionVars, first>>

\* hc.checkers = append(hc.checkers, ...), once per element of cs, in a
\* registration of the given kind, of which at most max are made
Register(cs, kind, max) ==
    /\ pc = "idle"
    /\ nRegs[kind] < max
    /\ checkers' = checkers \o cs
    /\ nRegs' = [nRegs EXCEPT ![kind] = @ + 1]
    /\ UNCHANGED <<hc, runVars, versionVars, first>>

AddKubernetesAPIChecks == Register(KubernetesAPIChecks, "AddKubernetesAPIChecks", MaxCalls)

AddLinkerdAPIChecks ==
    \E apiAddr \in {"", "addr"} :
        Register(LinkerdAPIChecks(apiAddr), "AddLinkerdAPIChecks", MaxCalls)

AddLinkerdVersionChecks ==
    \E versionOverride \in {"", "v"} :
        Register(LinkerdVersionChecks(versionOverride), "AddLinkerdVersionChecks", MaxCalls)

\* hc.checkers = append(hc.checkers, &checker{...}) with one action kind
AppendChecker ==
    \E fatal \in BOOLEAN, kind \in {"check", "checkRpc"} :
        Register(<< Checker("c", "d", fatal,
                            IF kind = "check" THEN Fn("PlainCheck", "") ELSE NilFn,
                            IF kind = "checkRpc" THEN Fn("PlainRpc", "") ELSE NilFn) >>,
                 "AppendChecker", MaxCheckers)

(***************************************************************************)
(* RunChecks.  pc is "idle" before the call, "check" at the top of the     *)
(* loop body, "observe" between checker.check() and its observe(), "rpc"   *)
(* before checker.checkRpc, "observeRpc" between checker.checkRpc() and    *)
(* its observe(), "results" in the loop over checkRsp.Results, "done"      *)
(* after the return and "panic" when an action panicked.                   *)
(***************************************************************************)
\* Observation dropping the error
ObservationNoErr(idx, sub, category, description, e) ==
    [idx |-> idx, sub |-> sub, category |-> category, description |-> description,
     err |-> NilErr]

\* observe(category, description, err); idx and sub say which checker, and
\* which of its sub-results (0: none), the call was made for
Observation(idx, sub, category, description, e) ==
    [idx |-> idx, sub |-> sub, category |-> category, description |-> description, err |-> e]

\* ObservedCall reporting failures only
ObservedCallErrOnly(c, e) ==
    IF e.isNil THEN obs ELSE Append(obs, Observation(i, 0, c.category, c.description, e))

\* observe(checker.category, checker.description, err)
ObservedCall(c, e) == Append(obs, Observation(i, 0, c.category, c.description, e))

\* SuccessAfter never lowering success
SuccessAfterKeep(s, e) == s

\* SuccessAfter taking its value from the last error alone
SuccessAfterLast(s, e) == e.isNil

\* if err != nil { success = false
SuccessAfter(s, e) == IF e.isNil THEN s ELSE FALSE

\* FatalBreak without the break
FatalBreakNever(c, e) == FALSE

\* FatalBreak going on after a deadline that passed
FatalBreakButDeadline(c, e) == ~e.isNil /\ c.fatal /\ e # DeadlineExceeded

\* FatalBreak without the test of checker.fatal
FatalBreakAlways(c, e) == ~e.isNil

\* if err != nil { ... if checker.fatal { break }
FatalBreak(c, e) == ~e.isNil /\ c.fatal

\* return success
Return(s) ==
    /\ pc' = "done"
    /\ result' = <<s>>
    /\ i' = i

\* Advance invoking the action of a check that failed a second time
AdvanceRetrying(s) ==
    IF /\ i > 0
       /\ ~err.isNil
       /\ Cardinality({ m \in 1..Len(calls) : calls[m].idx = i }) < 2
    THEN /\ pc' = "check"
         /\ i' = i
         /\ result' = result
    ELSE IF i < Len(checkers)
    THEN /\ pc' = "check"
         /\ i' = i + 1
         /\ result' = result
    ELSE Return(s)

\* Advance over checkers kept in a map: the next iteration takes any of the
\* checkers not visited yet
AdvanceInMapOrder(s) ==
    LET visited == { calls[m].idx : m \in 1..Len(calls) }
        left == (1..Len(checkers)) \ visited
    IN  IF left # {}
        THEN /\ pc' = "check"
             /\ i' \in left
             /\ result' = result
        ELSE Return(s)

\* the next iteration of the loop over hc.checkers, or the return after it
Advance(s) ==
    IF i < Len(checkers)
    THEN /\ pc' = "check"
         /\ i' = i + 1
         /\ result' = result
    ELSE Return(s)

\* the outcomes among S that the action of checker idx can have in a second
\* call of RunChecks in which every action returns what it returned in the
\* first call; all of S when there was no call before, or none that invoked it
Replayed(S, idx) ==
    IF first = <<>>
    THEN S
    ELSE LET before == { n \in 1..Len(first[1].rets) : first[1].rets[n].idx = idx }
         IN  IF before = {}
             THEN S
             ELSE { o \in S : /\ ~o.panic
                              /\ \E n \in before :
                                    /\ o.err = first[1].rets[n].err
                                    /\ "rsp" \in DOMAIN o => o.rsp = first[1].rets[n].rsp }

RunChecks ==
    /\ pc = "idle"
    /\ success' = TRUE
    /\ Advance(TRUE)
    /\ UNCHANGED <<checkers, hc, nRegs, err, rsp, k, calls, rets, obs, reads,
                   versionVars, first>>

\* if checker.check != nil { err := checker.check()
CallCheck ==
    /\ pc = "check"
    /\ checkers[i].check # NilFn
    /\ \E o \in Replayed(CallLocal(checkers[i].check, hc, i), i) :
         /\ calls' = Append(calls, [idx |-> i, kind |-> "check"])
         /\ reads' = reads \o o.reads
         /\ hc' = o.hc
         /\ IF o.panic
            THEN /\ pc' = "panic"
                 /\ UNCHANGED <<err, rets>>
            ELSE /\ pc' = "observe"
                 /\ err' = o.err
                 /\ rets' = Append(rets, [idx |-> i, kind |-> "check", err |-> o.err, rsp |-> <<>>])
    /\ UNCHANGED <<checkers, nRegs, i, success, rsp, k, result, obs,
                   versionVars, first>>

\* observe(checker.category, checker.description, err) and the handling of
\* err after a local action
ObserveCheck ==
    /\ pc = "observe"
    /\ LET c == checkers[i]
       IN  /\ obs' = ObservedCall(c, err)
           /\ success' = SuccessAfter(success, err)
           /\ IF FatalBreak(c, err)
              THEN Return(success')
              ELSE IF c.checkRpc # NilFn
              THEN /\ pc' = "rpc"
                   /\ UNCHANGED <<i, result>>
              ELSE Advance(success')
    /\ UNCHANGED <<checkers, hc, nRegs, err, rsp, k, calls, rets, reads,
                   versionVars, first>>

\* if checker.checkRpc != nil { checkRsp, err := checker.checkRpc()
CallRpc ==
    /\ pc = "rpc" \/ (pc = "check" /\ checkers[i].check = NilFn)
    /\ IF checkers[i].checkRpc = NilFn
       THEN /\ Advance(success)
            /\ UNCHANGED <<err, rsp, k, calls, rets, reads>>
       ELSE \E o \in Replayed(CallRemote(checkers[i].checkRpc, hc, i), i) :
              /\ calls' = Append(calls, [idx |-> i, kind |-> "checkRpc"])
              /\ reads' = reads \o o.reads
              /\ UNCHANGED <<i, result>>
              /\ IF o.panic
                 THEN /\ pc' = "panic"
                      /\ UNCHANGED <<err, rsp, k, rets>>
                 ELSE /\ pc' = "observeRpc"
                      /\ err' = o.err
                      /\ rsp' = o.rsp
                      /\ k' = 0
                      /\ rets' = Append(rets, [idx |-> i, kind |-> "checkRpc",
                                               err |-> o.err, rsp |-> o.rsp])
    /\ UNCHANGED <<checkers, hc, nRegs, success, obs,
                   versionVars, first>>

\* observe(checker.category, checker.description, err) and the handling of
\* err after a remote action: break, continue, or on to the results
ObserveRpc ==
    /\ pc = "observeRpc"
    /\ LET c == checkers[i]
       IN  /\ obs' = ObservedCall(c, err)
           /\ success' = SuccessAfter(success, err)
           /\ IF FatalBreak(c, err)
              THEN Return(success')
              ELSE IF ~err.isNil \/ Len(rsp) = 0
              THEN Advance(success')
              ELSE /\ pc' = "results"
                   /\ UNCHANGED <<i, result>>
    /\ UNCHANGED <<checkers, hc, nRegs, err, rsp, k, calls, rets, reads,
                   versionVars, first>>

\* ResultAt ranging from the last element to the first
ResultAtReversed(r, n) == r[Len(r) - n]

\* the element of checkRsp.Results that the range loop visits after n others
ResultAt(r, n) == r[n + 1]

\* var err error; if check.Status != healthcheckPb.CheckStatus_OK {
\*     err = fmt.Errorf(check.FriendlyMessageToUser) }
ResultErr(check) ==
    IF check.Status # "OK" THEN Errorf(check.FriendlyMessageToUser) ELSE NilErr

\* NextResult with the fatal flag applied to a failed sub-result
NextResultFatal(c, e, s) ==
    IF ~e.isNil /\ c.fatal
    THEN Return(s)
    ELSE IF k + 1 = Len(rsp)
    THEN Advance(s)
    ELSE UNCHANGED <<pc, i, result>>

\* NextResult leaving the range loop after the first sub-result
NextResultFirstOnly(c, e, s) == Advance(s)

\* after the observe of a sub-result: the range loop goes on, whatever the
\* sub-result was, and the loop over hc.checkers goes on after it
NextResult(c, e, s) ==
    IF k + 1 = Len(rsp)
    THEN Advance(s)
    ELSE UNCHANGED <<pc, i, result>>

\* one iteration of: for _, check := range checkRsp.Results
ObserveResult ==
    /\ pc = "results"
    /\ k < Len(rsp)
    /\ LET c == checkers[i]
           check == ResultAt(rsp, k)
           category == SubCategory(c.category, check.SubsystemName)
           e == ResultErr(check)
       IN  /\ success' = IF check.Status # "OK" THEN FALSE ELSE success
           /\ obs' = Append(obs, Observation(i, k + 1, category, check.CheckDescription, e))
           /\ k' = k + 1
           /\ NextResult(c, e, success')
    /\ UNCHANGED <<checkers, hc, nRegs, err, rsp, calls, rets, reads,
                   versionVars, first>>

(***************************************************************************)
(* Spec: a HealthChecker set up with the Add* calls, then run.             *)
(***************************************************************************)
Next ==
    \/ AddKubernetesAPIChecks
    \/ AddLinkerdAPIChecks
    \/ AddLinkerdVersionChecks
    \/ RunChecks
    \/ CallCheck
    \/ ObserveCheck
    \/ CallRpc
    \/ ObserveRpc
    \/ ObserveResult

Spec == Init /\ [][Next]_vars

(***************************************************************************)
(* SpecCheckers: a HealthChecker whose checkers are any checkers with one  *)
(* action kind each, then run.                                             *)
(***************************************************************************)
NextCheckers ==
    \/ AppendChecker
    \/ RunChecks
    \/ CallCheck
    \/ ObserveCheck
    \/ CallRpc
    \/ ObserveRpc
    \/ ObserveResult

SpecCheckers == Init /\ [][NextCheckers]_vars

(***************************************************************************)
(* SpecCheckersFair: SpecCheckers where RunChecks, once called, keeps      *)
(* running: it is a loop on the caller's goroutine, and no step of it      *)
(* waits for anything but the action it called.                            *)
(***************************************************************************)
RunSteps ==
    \/ CallCheck
    \/ ObserveCheck
    \/ CallRpc
    \/ ObserveRpc
    \/ ObserveResult

SpecCheckersFair == SpecCheckers /\ WF_vars(RunSteps)

(***************************************************************************)
(* SpecTwoRuns: SpecCheckers with RunChecks called a second time on the    *)
(* same HealthChecker after it returned, every action returning in the     *)
(* second call what it returned in the first.                              *)
(***************************************************************************)
\* hc.RunChecks(observer) once more: success := true and the loop over
\* hc.checkers from its first element, with fresh locals
RunChecksAgain ==
    /\ pc = "done"
    /\ first = <<>>
    /\ first' = << [rets |-> rets, obs |-> obs, result |-> result] >>
    /\ success' = TRUE
    /\ IF Len(checkers) > 0
       THEN /\ pc' = "check"
            /\ i' = 1
            /\ result' = <<>>
       ELSE /\ pc' = "done"
            /\ i' = 0
            /\ result' = << TRUE >>
    /\ err' = NilErr
    /\ rsp' = <<>>
    /\ k' = 0
    /\ calls' = <<>>
    /\ rets' = <<>>
    /\ obs' = <<>>
    /\ reads' = <<>>
    /\ UNCHANGED <<checkers, hc, nRegs, versionVars>>

NextTwoRuns ==
    \/ AppendChecker
    \/ RunChecks
    \/ RunChecksAgain
    \/ CallCheck
    \/ ObserveCheck
    \/ CallRpc
    \/ ObserveRpc
    \/ ObserveResult

SpecTwoRuns == Init /\ [][NextTwoRuns]_vars

(***************************************************************************)
(* SpecVersion: CheckVersion called once, with any of the version strings. *)
(***************************************************************************)
InitVersion ==
    /\ NewHealthChecker
    /\ versionInfo \in VersionInfos
    /\ versionRet = <<>>

\* err := kubeApi.CheckVersion(versionInfo)
CallCheckVersion ==
    /\ versionRet = <<>>
    /\ versionRet' = << CheckVersion(versionInfo) >>
    /\ UNCHANGED <<checkers, hc, nRegs, runVars, versionInfo, first>>

NextVersion == CallCheckVersion

SpecVersion == InitVersion /\ [][NextVersion]_vars

(***************************************************************************)
(* Types.                                                                  *)
(***************************************************************************)
TypeOK ==
    /\ pc \in {"idle", "check", "observe", "rpc", "observeRpc", "results", "done", "panic"}
    /\ i \in 0..Len(checkers)
    /\ success \in BOOLEAN
    /\ k \in 0..Len(rsp)
    /\ result \in {<<>>, <<TRUE>>, <<FALSE>>}
    /\ \A r \in Registrations : nRegs[r] >= 0
    /\ versionInfo \in VersionInfos
    /\ Len(versionRet) <= 1
    /\ Len(first) <= 1

(***************************************************************************)
(* Properties of RunChecks.                                                *)
(***************************************************************************)
\* the observer calls made for checker idx, in order
ObsOf(idx) == SelectSeq(obs, LAMBDA o : o.idx = idx)

\* the action of checker idx was invoked
Called(idx) == \E m \in 1..Len(calls) : calls[m].idx = idx

\* RunChecks is past checker idx: every observer call for it has been made
Past(idx) == pc = "done" \/ i > idx

\* C1: if checker i is fatal and its action (local, or the remote call)
\* returns an error, RunChecks returns false, no action of a checker j > i is
\* invoked and the observer gets no call for a checker j > i.
FatalFailureHalts ==
    \A n \in 1..Len(rets) :
        LET r == rets[n]
        IN  (checkers[r.idx].fatal /\ ~r.err.isNil) =>
                /\ \A m \in 1..Len(calls) : calls[m].idx <= r.idx
                /\ \A m \in 1..Len(obs) : obs[m].idx <= r.idx
                /\ i = r.idx
                /\ pc \in {"observe", "observeRpc", "done"}
                /\ pc = "done" => result = <<FALSE>> /\ Len(ObsOf(r.idx)) = 1

\* C1's case: the first of several checkers is fatal and fails, RunChecks
\* has returned false and the observer was called once
FatalFailureHaltsWitness ==
    /\ pc = "done"
    /\ Len(checkers) >= 2
    /\ Len(rets) = 1
    /\ checkers[1].fatal
    /\ ~rets[1].err.isNil
    /\ Len(obs) = 1
    /\ result = <<FALSE>>

ObserverInRegistrationOrder ==
    /\ \A m, n \in 1..Len(obs) :
           m < n => \/ obs[m].idx < obs[n].idx
                    \/ obs[m].idx = obs[n].idx /\ obs[m].sub < obs[n].sub
    /\ \A m \in 1..Len(obs) :
           obs[m].sub > 0 =>
               \E n \in 1..Len(rets) :
                   /\ rets[n].idx = obs[m].idx
                   /\ rets[n].kind = "checkRpc"
                   /\ obs[m].sub <= Len(rets[n].rsp)
                   /\ obs[m].description = rets[n].rsp[obs[m].sub].CheckDescription
                   /\ obs[m].err.isNil <=> rets[n].rsp[obs[m].sub].Status = "OK"

\* C3's case: two remote checkers, each with two sub-results of which the
\* first failed and the second did not, all observed
ObserverOrderWitness ==
    /\ pc = "done"
    /\ Len(rets) = 2
    /\ \A n \in 1..2 :
           /\ rets[n].kind = "checkRpc"
           /\ Len(rets[n].rsp) = 2
           /\ rets[n].rsp[1].Status # "OK"
           /\ rets[n].rsp[2].Status = "OK"
    /\ Len(obs) = 6

\* C4: RunChecks returns true iff every observer call of the run carried a
\* nil error; for an empty registry it returns true with no observer call.
ResultIffNoObservedError ==
    pc = "done" =>
        /\ result = <<TRUE>> <=> \A m \in 1..Len(obs) : obs[m].err.isNil
        /\ checkers = <<>> => result = <<TRUE>> /\ obs = <<>>

\* C4's case: a local and a remote checker, all succeeding with sub-results
\* that are OK, and RunChecks returned true
ResultTrueWitness ==
    /\ pc = "done"
    /\ result = <<TRUE>>
    /\ Len(checkers) = 2
    /\ \E m \in 1..Len(obs) : obs[m].sub = 2
    /\ \E n \in 1..Len(rets) : rets[n].kind = "check"

\* C5: the fatal flag of a remote checker does not apply to its sub-results:
\* when its call succeeds and some sub-result is not OK, every sub-result of
\* the response is observed and the next checker is executed, while the
\* result is false.
FatalFlagNotForSubResults ==
    \A n \in 1..Len(rets) :
        LET r == rets[n]
        IN  (/\ r.kind = "checkRpc"
             /\ checkers[r.idx].fatal
             /\ r.err.isNil
             /\ \E j \in 1..Len(r.rsp) : r.rsp[j].Status # "OK") =>
                /\ Past(r.idx) =>
                       /\ \A j \in 1..Len(r.rsp) :
                              \E m \in 1..Len(obs) : obs[m].idx = r.idx /\ obs[m].sub = j
                       /\ r.idx < Len(checkers) => i > r.idx
                /\ pc = "done" =>
                       /\ result = <<FALSE>>
                       /\ r.idx < Len(checkers) => Called(r.idx + 1)

\* C5's case: a fatal remote checker whose first sub-result failed, the
\* second sub-result observed and the checker after it executed
FatalFlagNotForSubResultsWitness ==
    /\ pc = "done"
    /\ Len(checkers) = 2
    /\ checkers[1].fatal
    /\ Len(rets) = 2
    /\ rets[1].kind = "checkRpc"
    /\ Len(rets[1].rsp) = 2
    /\ rets[1].rsp[1].Status # "OK"
    /\ \E m \in 1..Len(obs) : obs[m].idx = 1 /\ obs[m].sub = 2
    /\ Called(2)

\* C6: if checker i is not fatal and its action (local, or the remote call)
\* returns an error, RunChecks goes on: the next action invoked is that of
\* checker i + 1, when there is one.
NonFatalFailureContinues ==
    \A n \in 1..Len(rets) :
        LET r == rets[n]
        IN  (~checkers[r.idx].fatal /\ ~r.err.isNil /\ r.idx < Len(checkers)) =>
                /\ i = r.idx => pc \in {"observe", "observeRpc"}
                /\ i > r.idx + 1 \/ pc \in {"done", "panic"} => Called(r.idx + 1)
                /\ \A m \in 1..Len(calls) :
                       calls[m].idx = r.idx /\ m < Len(calls) => calls[m + 1].idx = r.idx + 1

\* C6's case: a remote checker that is not fatal failed, and the checker
\* after it was executed
NonFatalFailureContinuesWitness ==
    /\ Len(rets) = 2
    /\ rets[1].kind = "checkRpc"
    /\ ~rets[1].err.isNil
    /\ ~checkers[1].fatal
    /\ calls[2].idx = 2

\* some action returned an error, or some sub-result returned was not OK
SomeFailure ==
    \E n \in 1..Len(rets) :
        \/ ~rets[n].err.isNil
        \/ \E j \in 1..Len(rets[n].rsp) : rets[n].rsp[j].Status # "OK"

\* C7: the failure is sticky: during a run success only goes from true to
\* false, and after any failure RunChecks returns false, whatever succeeds
\* later.
FailureIsSticky ==
    /\ [][pc # "idle" /\ ~success => ~success']_vars
    /\ [](pc = "done" /\ SomeFailure => result = <<FALSE>>)

\* C7's case: the first checker failed, a later one succeeded with a
\* sub-result that is OK, and RunChecks returned false
FailureIsStickyWitness ==
    /\ pc = "done"
    /\ result = <<FALSE>>
    /\ Len(rets) = 2
    /\ ~rets[1].err.isNil
    /\ rets[2].err.isNil
    /\ Len(rets[2].rsp) = 1
    /\ rets[2].rsp[1].Status = "OK"

\* C8: every local action that returned, and every remote action whose call
\* returned an error, gets exactly one observer call, with the category and
\* the description of its checker and the error returned; a failed remote
\* call gets no observer call for sub-results.
ActionObservedOnce ==
    \A n \in 1..Len(rets) :
        LET r == rets[n]
            o == ObsOf(r.idx)
        IN  ((r.kind = "check" \/ ~r.err.isNil) /\ Past(r.idx)) =>
                /\ Len(o) = 1
                /\ o[1].sub = 0
                /\ o[1].category = checkers[r.idx].category
                /\ o[1].description = checkers[r.idx].description
                /\ o[1].err = r.err

\* C8's case: a local action that failed and a remote call that failed, both
\* observed
ActionObservedOnceWitness ==
    /\ pc = "done"
    /\ Len(rets) = 2
    /\ rets[1].kind = "check"
    /\ ~rets[1].err.isNil
    /\ rets[2].kind = "checkRpc"
    /\ ~rets[2].err.isNil
    /\ Len(obs) = 2

\* C9: the observer call for a sub-result has the checker's category followed
\* by "[" subsystemName "]", a nil error iff the status is OK, and otherwise
\* an error whose text is the failure message, whatever the message.
SubResultErrorVerbatim ==
    \A m \in 1..Len(obs) :
        obs[m].sub > 0 =>
            \E n \in 1..Len(rets) :
                /\ rets[n].idx = obs[m].idx
                /\ LET check == rets[n].rsp[obs[m].sub]
                   IN  /\ obs[m].category =
                              checkers[obs[m].idx].category \o "[" \o check.SubsystemName \o "]"
                       /\ obs[m].err.isNil <=> check.Status = "OK"
                       /\ check.Status # "OK" => obs[m].err.text = check.FriendlyMessageToUser

(***************************************************************************)
(* Properties of the registrations' use of the shared fields.              *)
(***************************************************************************)
\* the checkers are those of AddKubernetesAPIChecks, AddLinkerdAPIChecks and
\* AddLinkerdVersionChecks, called once each in this order
Canonical ==
    \E apiAddr \in {"", "addr"}, versionOverride \in {"", "v"} :
        checkers = KubernetesAPIChecks \o LinkerdAPIChecks(apiAddr)
                       \o LinkerdVersionChecks(versionOverride)

\* a field assigned with an error has no reader, and no action is invoked
\* after the one that assigned it
FailedWriteHalts ==
    /\ \A m \in 1..Len(reads) : reads[m].st # "failed"
    /\ \A f \in Fields :
           hc[f].st = "failed" => \A m \in 1..Len(calls) : calls[m].idx <= hc[f].by

\* C10 as stated: with the canonical registration, whenever a checker reads
\* a field, an earlier checker has assigned it without error, and a failed
\* assignment halts the run before any reader.
ReadsWrittenByEarlierChecker ==
    Canonical =>
        /\ \A m \in 1..Len(reads) : reads[m].st = "ok" /\ reads[m].by < reads[m].idx
        /\ FailedWriteHalts

\* C10, amended: with the canonical registration, whenever a checker reads a
\* field, an earlier checker, or the reading checker itself earlier in its
\* action, has assigned it without error, and a failed assignment halts the
\* run before any reader.
ReadsWrittenBefore ==
    Canonical =>
        /\ \A m \in 1..Len(reads) : reads[m].st = "ok" /\ reads[m].by <= reads[m].idx
        /\ FailedWriteHalts

\* C10's case: the canonical registration ran to its last checker, which
\* read apiClient and latestVersion
ReadsWrittenBeforeWitness ==
    /\ Canonical
    /\ pc = "done"
    /\ Len(rets) = 9
    /\ \E m \in 1..Len(reads) : reads[m].idx = 9 /\ reads[m].field = "apiClient"
    /\ \E m \in 1..Len(reads) : reads[m].idx = 9 /\ reads[m].field = "latestVersion"

\* the observer calls RunChecks makes for a check whose action returned r:
\* one for the action, and one per sub-result of a remote call that succeeded
ObserverCallsFor(r) ==
    IF r.kind = "checkRpc" /\ r.err.isNil THEN Len(r.rsp) + 1 ELSE 1

\* C11: execution is strictly sequential: at most one action is in progress
\* (invoked and not returned) at any time, and when the action of a check is
\* invoked, the action of every check invoked before it has returned and
\* every observer call for that earlier check has been made; the observer is
\* called for a check only after its action has returned.
StrictlySequential ==
    /\ Len(calls) - Len(rets) \in {0, 1}
    /\ Len(calls) > Len(rets) => pc = "panic"
    /\ \A m \in 1..Len(calls) : \A n \in 1..(m - 1) :
           /\ calls[n].idx < calls[m].idx
           /\ n <= Len(rets)
           /\ rets[n].idx = calls[n].idx
           /\ Len(ObsOf(calls[n].idx)) = ObserverCallsFor(rets[n])
    /\ \A m \in 1..Len(obs) : \E n \in 1..Len(rets) : rets[n].idx = obs[m].idx

\* C11's case: the action of the second check has just been invoked, after
\* the remote action of the first returned two sub-results and all three
\* observer calls for it were made
StrictlySequentialWitness ==
    /\ pc = "observe"
    /\ i = 2
    /\ Len(calls) = 2
    /\ rets[1].kind = "checkRpc"
    /\ rets[1].err.isNil
    /\ Len(rets[1].rsp) = 2
    /\ Len(ObsOf(1)) = 3
    /\ Len(ObsOf(2)) = 0

\* C12: a remote action whose deadline passed is handled like any other
\* failed remote call: one observer call with the check's category and
\* description and the non-nil error, no sub-result observed, the result of
\* RunChecks false; the run halts there if the check is fatal and goes on
\* with the next check otherwise.
TimeoutHandledAsError ==
    \A n \in 1..Len(rets) :
        LET r == rets[n]
            c == checkers[r.idx]
            o == ObsOf(r.idx)
            observing == pc = "observeRpc" /\ i = r.idx
        IN  (r.kind = "checkRpc" /\ r.err = DeadlineExceeded) =>
                /\ observing \/ /\ Len(o) = 1
                                /\ o[1].sub = 0
                                /\ o[1].category = c.category
                                /\ o[1].description = c.description
                                /\ ~o[1].err.isNil
                                /\ ~success
                /\ pc = "done" => result = <<FALSE>>
                /\ c.fatal =>
                       /\ observing \/ pc = "done"
                       /\ i = r.idx
                       /\ \A m \in 1..Len(calls) : calls[m].idx <= r.idx
                /\ (~c.fatal /\ r.idx < Len(checkers)) =>
                       \/ observing
                       \/ pc = "check" /\ i = r.idx + 1
                       \/ Called(r.idx + 1)
                /\ (~c.fatal /\ r.idx = Len(checkers)) => observing \/ pc = "done"

\* C12's case: the remote action of the first check, not fatal, ran into its
\* deadline, the action of the second check was invoked after it and
\* returned no error, and RunChecks returned false
TimeoutHandledAsErrorWitness ==
    /\ pc = "done"
    /\ Len(rets) = 2
    /\ rets[1].kind = "checkRpc"
    /\ rets[1].err = DeadlineExceeded
    /\ ~checkers[1].fatal
    /\ rets[2].err.isNil
    /\ Len(ObsOf(1)) = 1
    /\ result = <<FALSE>>

(***************************************************************************)
(* Properties of CheckVersion.                                             *)
(***************************************************************************)
\* a >= b in the lexicographic order of triples: they are equal, or a is
\* greater at the first place where they differ
LexGreaterOrEqual(a, b) ==
    \/ a = b
    \/ \E j \in 1..3 : a[j] > b[j] /\ \A h \in 1..(j - 1) : a[h] = b[h]

\* C13: CheckVersion returns no error if and only if the triple parsed from
\* the cluster version is lexicographically greater than or equal to
\* (1,8,0): (1,9,0), (2,0,0) and (1,8,0) are accepted, (1,7,9) is rejected,
\* and a higher major or minor number outweighs the numbers after it.
AcceptsFromMinimumVersion ==
    versionRet # <<>> =>
        LET parsed == getK8sVersion(String(versionInfo))
            v == parsed.version
            accepted == versionRet[1].isNil
        IN  parsed.err.isNil =>
                /\ accepted <=> LexGreaterOrEqual(v, <<1, 8, 0>>)
                /\ v \in { <<1, 9, 0>>, <<2, 0, 0>>, <<1, 8, 0>> } => accepted
                /\ v = <<1, 7, 9>> => ~accepted
                /\ v[1] > 1 => accepted
                /\ v[1] < 1 => ~accepted
                /\ (v[1] = 1 /\ v[2] > 8) => accepted
                /\ (v[1] = 1 /\ v[2] < 8) => ~accepted

\* C13's case: CheckVersion returned no error for "v2.0.0", whose minor
\* number is below the minimum's
AcceptsFromMinimumVersionWitness ==
    /\ String(versionInfo) = <<"v", "2", ".", "0", ".", "0">>
    /\ versionRet = << NilErr >>

\* the checks that are fatal and whose action returned an error
FatalFailures ==
    { rets[n].idx : n \in { m \in 1..Len(rets) :
                              checkers[rets[m].idx].fatal /\ ~rets[m].err.isNil } }

\* the last check whose action RunChecks invokes: the first one with a fatal
\* failure, the last of the registry when there is none
LastInvoked ==
    IF FatalFailures = {}
    THEN Len(checkers)
    ELSE CHOOSE f \in FatalFailures : \A g \in FatalFailures : f <= g

\* no action is invoked twice, nor more actions than there are checks, and
\* a run that returned invoked the actions of the checks up to LastInvoked
InvokedOnce ==
    /\ \A m, n \in 1..Len(calls) : m # n => calls[m].idx # calls[n].idx
    /\ Len(calls) <= Len(checkers)
    /\ pc = "done" => { calls[m].idx : m \in 1..Len(calls) } = 1..LastInvoked

\* C14: there is no retry: in one call of RunChecks the action of each check
\* is invoked at most once, and exactly once for every check up to the first
\* fatal failure (for every check when there is none); with actions that
\* return, RunChecks returns, after at most as many invocations as there are
\* checks.
NoRetry ==
    /\ []InvokedOnce
    /\ [](pc # "idle" => <>(pc = "done"))

\* C14's case: RunChecks returned after it invoked the action of each of two
\* checks once, the first of which failed without being fatal
NoRetryWitness ==
    /\ pc = "done"
    /\ Len(checkers) = 2
    /\ ~checkers[1].fatal
    /\ ~rets[1].err.isNil
    /\ Len(calls) = 2
    /\ calls[1].idx = 1
    /\ calls[2].idx = 2

\* C15: the registry is append-only and its order never changes: a step that
\* changes hc.checkers is a registration made before RunChecks, which leaves
\* the checkers registered so far as they were, in their places, and adds
\* checkers after them; RunChecks, from its call to its return, leaves
\* hc.checkers (length, order, and each checker's category, description,
\* fatal flag and actions) unchanged.
RegistryAppendOnly ==
    [][ /\ checkers' # checkers =>
               /\ pc = "idle" /\ pc' = "idle"
               /\ Len(checkers') > Len(checkers)
               /\ SubSeq(checkers', 1, Len(checkers)) = checkers
        /\ (pc # "idle" \/ pc' # "idle") => checkers' = checkers
        /\ nRegs' # nRegs => Len(checkers') > Len(checkers)
      ]_vars

\* C15's case: AddLinkerdAPIChecks was called after AddKubernetesAPIChecks,
\* whose four checkers are still the first four, and RunChecks ran all six
RegistryAppendOnlyWitness ==
    /\ pc = "done"
    /\ Len(checkers) = 6
    /\ SubSeq(checkers, 1, 4) = KubernetesAPIChecks
    /\ checkers[5].check.fn = "CheckCanInitApiClient"
    /\ Len(rets) = 6

\* C16: every checker of a registry built by the Add* calls has exactly one
\* of its two actions, so RunChecks invokes at most one action per check,
\* and every check it went past was observed at least once.
OneActionKind ==
    /\ \A n \in 1..Len(checkers) :
           (checkers[n].check = NilFn) # (checkers[n].checkRpc = NilFn)
    /\ \A m, n \in 1..Len(calls) : calls[m].idx = calls[n].idx => m = n
    /\ \A m \in 1..Len(calls) :
           calls[m].kind = IF checkers[calls[m].idx].check # NilFn
                           THEN "check" ELSE "checkRpc"
    /\ \A idx \in 1..Len(checkers) :
           (idx < i \/ (idx = i /\ pc = "done")) => Len(ObsOf(idx)) >= 1

\* C16's case: AddLinkerdAPIChecks alone, with an address: RunChecks invoked
\* the local action of the first check and the remote action of the second,
\* and both checks were observed
OneActionKindWitness ==
    /\ pc = "done"
    /\ Len(checkers) = 2
    /\ checkers[1].check = Fn("CheckCanInitApiClient", "addr")
    /\ Len(calls) = 2
    /\ calls[1].kind = "check"
    /\ calls[2].kind = "checkRpc"
    /\ Len(ObsOf(1)) = 1
    /\ Len(ObsOf(2)) >= 1

\* the Add* calls were made in an order that respects what their checks
\* use: AddLinkerdAPIChecks without an address after AddKubernetesAPIChecks
\* (its client is built from hc.kubeApi), and AddLinkerdVersionChecks after
\* AddLinkerdAPIChecks (its last check uses hc.apiClient)
DependencyOrder ==
    \A p \in 1..Len(checkers) :
        LET f == checkers[p].check
        IN  /\ (f.fn = "CheckCanInitApiClient" /\ f.arg = "") =>
                   \E q \in 1..(p - 1) : checkers[q].check.fn = "CheckCanInitKubeClient"
            /\ f.fn = "CheckCanGetLatestVersion" =>
                   \E q \in 1..(p - 1) : checkers[q].check.fn = "CheckCanInitApiClient"

\* C17 as stated: whatever Add* calls built the registry, and in whatever
\* order, no check reads a field that no earlier check has assigned.
ReadsWrittenInAnyOrder ==
    \A m \in 1..Len(reads) :
        /\ reads[m].st # "nil"
        /\ reads[m].by >= 1
        /\ reads[m].by < reads[m].idx

\* C17, amended: when the Add* calls were made in an order that respects the
\* dependencies (AddKubernetesAPIChecks before an AddLinkerdAPIChecks without
\* an address, AddLinkerdAPIChecks before AddLinkerdVersionChecks), no check
\* reads a field that neither an earlier check nor the reading check itself,
\* earlier in its action, has assigned.
ReadsWrittenInDependencyOrder ==
    DependencyOrder =>
        \A m \in 1..Len(reads) :
            /\ reads[m].st # "nil"
            /\ reads[m].by >= 1
            /\ reads[m].by <= reads[m].idx

\* C17's case: AddLinkerdAPIChecks with an address, then
\* AddLinkerdVersionChecks, without AddKubernetesAPIChecks: the last check
\* read the hc.apiClient that the first check assigned
ReadsWrittenInDependencyOrderWitness ==
    /\ pc = "done"
    /\ Len(checkers) = 5
    /\ checkers[1].check = Fn("CheckCanInitApiClient", "addr")
    /\ DependencyOrder
    /\ Len(rets) = 5
    /\ \E m \in 1..Len(reads) :
           reads[m].idx = 5 /\ reads[m].field = "apiClient" /\ reads[m].by = 1

\* what C18 compares of an observer call: the category, the description and
\* whether there was an error
Observed(o) == <<o.category, o.description, o.err.isNil>>

\* C18: RunChecks is deterministic in what the actions return: in a second
\* call of RunChecks on the same registry, in which every action returns what
\* it returned in the first call (the same error or nil and, for a remote
\* action, the same sub-results), the observer gets the same calls (category,
\* description, error or not) in the same order, and RunChecks returns the
\* same value.
SameOutcomesSameRun ==
    first # <<>> =>
        /\ Len(obs) <= Len(first[1].obs)
        /\ \A m \in 1..Len(obs) : Observed(obs[m]) = Observed(first[1].obs[m])
        /\ Len(rets) <= Len(first[1].rets)
        /\ \A n \in 1..Len(rets) : rets[n] = first[1].rets[n]
        /\ pc = "done" =>
               /\ Len(obs) = Len(first[1].obs)
               /\ result = first[1].result

\* C18's case: both calls of RunChecks returned false after the first check
\* failed without being fatal and the remote action of the second returned
\* two sub-results, with four observer calls in each
SameOutcomesSameRunWitness ==
    /\ first # <<>>
    /\ pc = "done"
    /\ Len(rets) = 2
    /\ ~rets[1].err.isNil
    /\ rets[2].kind = "checkRpc"
    /\ Len(rets[2].rsp) = 2
    /\ Len(obs) = 4
    /\ Len(first[1].obs) = 4
    /\ result = << FALSE >>
    /\ first[1].result = << FALSE >>

\* sub occurs in text as a run of consecutive elements
Contains(text, sub) ==
    \E start \in 1..(Len(text) - Len(sub) + 1) :
        SubSeq(text, start, start + Len(sub) - 1) = sub

\* the three numbers of v as they are written in a version, "1.8.0"
Dotted(v) == Itoa(v[1]) \o <<".">> \o Itoa(v[2]) \o <<".">> \o Itoa(v[3])

\* C19: when the cluster version cannot be parsed, CheckVersion returns the
\* error of the parse and makes no comparison, so that a version that cannot
\* be parsed is never reported as compatible; when it can be parsed and is
\* below the minimum, the error returned carries both the actual and the
\* required triple.
UnparsableIsAnError ==
    versionRet # <<>> =>
        LET parsed == getK8sVersion(String(versionInfo))
            e == versionRet[1]
        IN  /\ ~parsed.err.isNil =>
                   /\ ~e.isNil
                   /\ e = parsed.err
                   /\ e = ParseError(String(versionInfo))
            /\ (parsed.err.isNil /\ ~e.isNil) =>
                   /\ e # ParseError(String(versionInfo))
                   /\ Contains(e.text, Dotted(parsed.version))
                   /\ Contains(e.text, Dotted(minApiVersion))
            /\ String(versionInfo) \in MalformedVersions => ~e.isNil

\* C19's case: CheckVersion returned the parse error for "1.8", which has
\* two numeric components only
UnparsableIsAnErrorWitness ==
    /\ String(versionInfo) = <<"1", ".", "8">>
    /\ versionRet = << ParseError(<<"1", ".", "8">>) >>

====
